---- MODULE Spec2Model ----
(***************************************************************************)
(* Amino-acid sequence alignment visualizer (yegorsid/subsequences).       *)
(*                                                                         *)
(* The repository holds two variants of the App component:                 *)
(*   - the layout variant (src/unnamed/part_000): JS line reflow, mouseup  *)
(*     listener on the container, container-scoped copy;                   *)
(*   - the flow variant (src/src/App.tsx): CSS wrapping, selectionchange   *)
(*     listener on the document.                                           *)
(* The form (live filtering, validation, onSubmit) is the same in both.    *)
(*                                                                         *)
(* A JS string is modelled as a sequence of one-character strings.         *)
(***************************************************************************)
EXTENDS Integers, Sequences, FiniteSets, TLC

VARIABLES
    formValues,      \* react-hook-form values: [firstSubsequense, secondSubsequense]
    typed,           \* history: the raw keystrokes typed into each field since it was last empty
    lengthError,     \* errors.root.lengthError is set
    lastAttempt,     \* history: outcome of the last click on Submit
    firstSequence,   \* useState('')
    secondSequence,  \* useState('')
    charsPerLine,    \* useState(0)
    renderedLines,   \* the display lines of the committed render
    variant,         \* "layout" (part_000) or "flow" (App.tsx)
    mounted,         \* the component is mounted
    listeners,       \* number of registrations of the debounced selection listener
    timeoutID,       \* ms left on the timeout the debounced wrapper holds, NoTimer when none
    timers,          \* ms left on each timeout pending in the browser
    selection,       \* window.getSelection(): [text, anchorIn, focusIn]
    clipboard,       \* the texts handed to navigator.clipboard.writeText, in order
    pendingWrites,   \* writeText promises not yet settled
    toasts,          \* toaster.success calls
    consoleErrors,   \* console.error('Copy failed:') calls
    unhandled,       \* rejections no handler caught
    sinceEvent,      \* history: ms since the last event the listener received (capped)
    handlerRuns,     \* history: runs of handleTextSelection
    events,          \* history: events the listener received
    bursts           \* history: bursts of events started

formVars == <<formValues, typed, lengthError, lastAttempt>>
layoutVars == <<firstSequence, secondSequence, charsPerLine, renderedLines>>
selVars == <<mounted, listeners, timeoutID, timers, selection, clipboard, pendingWrites,
             toasts, consoleErrors, unhandled, sinceEvent, handlerRuns, events,
             bursts>>
vars == <<formValues, typed, lengthError, lastAttempt, firstSequence, secondSequence,
          charsPerLine, renderedLines, variant, mounted, listeners, timeoutID, timers,
          selection, clipboard, pendingWrites, toasts, consoleErrors, unhandled,
          sinceEvent, handlerRuns, events, bursts>>

----------------------------------------------------------------------------
(* Bounds of the model *)

\* keystrokes typed into one field before it is cleared, in the user's flow
MaxTyped == 2
\* keystrokes typed into one field before it is cleared, typing alone
MaxKeys == 3
\* length of a field value drawn for the layout specification
MaxSeqLen == 5
\* widest container, in character cells
MaxCells == 3
\* events the selection listener receives in one run
MaxEvents == 3

Min(a, b) == IF a < b THEN a ELSE b
Max(a, b) == IF a > b THEN a ELSE b

RECURSIVE SeqsUpTo(_, _)
SeqsUpTo(S, n) ==
    IF n = 0 THEN {<<>>}
    ELSE LET shorter == SeqsUpTo(S, n - 1)
         IN shorter \cup {Append(s, c) : s \in {t \in shorter : Len(t) = n - 1}, c \in S}

\* characters typed in the typing specification: a lowercase and an uppercase
\* letter of the alphabet, the gap, a digit
InputChars == {"a", "R", "-", "1"}
\* characters typed in the user's flow
FlowChars == {"a", "R"}
\* symbols of the field values drawn for the layout specification
LayoutSymbols == {"A", "D"}
\* field values written without the live filter: uppercase and lowercase
\* alphabet letters, a digit
ProgValues ==
    {<<>>, <<"A">>, <<"r">>, <<"1">>, <<"A", "A">>, <<"A", "r">>, <<"r", "1">>}
\* clientWidth values of the container, in px
ContainerWidths == {16 * k + r : k \in 0..MaxCells, r \in {0, 15}}

FieldNames == {"firstSubsequense", "secondSubsequense"}

----------------------------------------------------------------------------
(* Symbol alphabet and colour map *)

ALLOWED_SYMBOLS ==
    <<"A", "R", "N", "D", "C", "E", "Q", "G", "H", "I", "L",
      "K", "M", "F", "P", "S", "T", "W", "Y", "V", "-">>

COLOR_MAP ==
    [c \in {"C"} |-> "#FFEA00"] @@
    [c \in {"A", "I", "L", "M", "F", "W", "Y", "V", "P"} |-> "#67E4A6"] @@
    [c \in {"G"} |-> "#C4C4C4"] @@
    [c \in {"D", "E"} |-> "#FC9CAC"] @@
    [c \in {"K", "R"} |-> "#BB99FF"] @@
    [c \in {"S", "T", "H", "Q", "N"} |-> "#80BFFF"] @@
    [c \in {"-"} |-> "transparent"]

\* COLOR_MAP[char]: a key the object lacks reads as undefined
colorOf(char) == IF char \in DOMAIN COLOR_MAP THEN COLOR_MAP[char] ELSE "undefined"

\* ALLOWED_SYMBOLS.includes(char), char one character
includes(char) == \E i \in 1..Len(ALLOWED_SYMBOLS) : ALLOWED_SYMBOLS[i] = char

\* String.prototype.toUpperCase on one character of the modelled character set
upperChar(c) ==
    CASE c = "a" -> "A"
      [] c = "r" -> "R"
      [] c = "n" -> "N"
      [] c = "d" -> "D"
      [] c = "b" -> "B"
      [] OTHER -> c

toUpperCase(value) == [i \in 1..Len(value) |-> upperChar(value[i])]

----------------------------------------------------------------------------
(* Input validator *)

\* value.toUpperCase().split('').every(char => ALLOWED_SYMBOLS.includes(char))
validateAminoAcidInput(value) ==
    \A i \in 1..Len(value) : includes(toUpperCase(value)[i])

\* mutant: the character class is tested before uppercasing
filterInput_noUpper(raw) == toUpperCase(SelectSeq(raw, includes))

\* onChange: e.target.value.toUpperCase().split('').filter(...).join('')
filterInput(raw) == SelectSeq(toUpperCase(raw), includes)

----------------------------------------------------------------------------
(* Reflow layout *)

\* mutant: the end index is dropped, text.slice(a)
slice_toEnd(text, a, b) == SubSeq(text, a + 1, Len(text))

\* text.slice(a, b) for 0 <= a <= b
slice(text, a, b) == SubSeq(text, a + 1, Min(b, Len(text)))

RECURSIVE splitFrom(_, _, _)
splitFrom(text, cpl, i) ==
    IF i < Len(text)
    THEN <<slice(text, i, i + cpl)>> \o splitFrom(text, cpl, i + cpl)
    ELSE <<>>

\* mutant: the slice is one symbol short
splitText_short(text, cpl) ==
    [k \in 1..Len(splitFrom(text, cpl, 0)) |-> slice(text, (k - 1) * cpl, k * cpl - 1)]

\* splitText: for (i = 0; i < text.length; i += charsPerLine) lines.push(text.slice(i, i + charsPerLine))
splitText(text, cpl) == splitFrom(text, cpl, 0)

\* mutant: the guard is gone and a width of 0 is taken as one cell
linesMemo_noGuard(first, second, cpl) ==
    [linesA |-> splitText(first, Max(cpl, 1)), linesB |-> splitText(second, Max(cpl, 1))]

\* useMemo: { linesA, linesB }
linesMemo(first, second, cpl) ==
    IF cpl <= 0 THEN [linesA |-> <<>>, linesB |-> <<>>]
    ELSE [linesA |-> splitText(first, cpl), linesB |-> splitText(second, cpl)]

\* mutant: the factor 2 is forgotten
totalLines_single(linesA, linesB) == Max(Len(linesA), Len(linesB))

\* useMemo: Math.max(linesA.length, linesB.length) * 2
totalLines(linesA, linesB) == Max(Len(linesA), Len(linesB)) * 2

\* lines[contentIndex] || ''
lineAt(lines, contentIndex) ==
    IF contentIndex + 1 \in DOMAIN lines THEN lines[contentIndex + 1] ELSE <<>>

\* mutant: the parity test is inverted
renderedLinesMemo_swapped(linesA, linesB, total, cpl) ==
    [n \in 1..total |->
        LET lineIndex == n - 1
            contentIndex == lineIndex \div 2
        IN IF lineIndex % 2 = 1
           THEN [content |-> lineAt(linesA, contentIndex), isTextA |-> TRUE,
                 startGlobalIndex |-> contentIndex * cpl]
           ELSE [content |-> lineAt(linesB, contentIndex), isTextA |-> FALSE,
                 startGlobalIndex |-> contentIndex * cpl]]

\* useMemo: Array.from({ length: totalLines }).map((_, lineIndex) => ...)
renderedLinesMemo(linesA, linesB, total, cpl) ==
    [n \in 1..total |->
        LET lineIndex == n - 1
            isLineA == lineIndex % 2 = 0
            contentIndex == lineIndex \div 2
        IN IF isLineA
           THEN [content |-> lineAt(linesA, contentIndex), isTextA |-> TRUE,
                 startGlobalIndex |-> contentIndex * cpl]
           ELSE [content |-> lineAt(linesB, contentIndex), isTextA |-> FALSE,
                 startGlobalIndex |-> contentIndex * cpl]]

\* one render of the component: the chain of the three memos
Render(first, second, cpl) ==
    LET memo == linesMemo(first, second, cpl)
    IN renderedLinesMemo(memo.linesA, memo.linesB,
                         totalLines(memo.linesA, memo.linesB), cpl)

\* mutant: the cell is compared at its offset in the line
queryCellBg_local(line, charIndex, first) ==
    LET char == line.content[charIndex + 1]
        isDifferent == charIndex >= Len(first) \/ char # first[charIndex + 1]
    IN IF isDifferent THEN colorOf(char) ELSE "transparent"

\* the bg of a query-track cell: isDifferent ? COLOR_MAP[char] : 'transparent'
queryCellBg(line, charIndex, first) ==
    LET char == line.content[charIndex + 1]
        globalIndex == line.startGlobalIndex + charIndex
        isDifferent == globalIndex >= Len(first) \/ char # first[globalIndex + 1]
    IN IF isDifferent THEN colorOf(char) ELSE "transparent"

\* mutant: reference cells take the branch of the query cells
lineCells_allQuery(line, first) ==
    [j \in 1..Len(line.content) |->
        [char |-> line.content[j], bg |-> queryCellBg(line, j - 1, first)]]

\* Array.from(line.content).map((char, charIndex) => <Box bg=...>{char}</Box>)
lineCells(line, first) ==
    [j \in 1..Len(line.content) |->
        [char |-> line.content[j],
         bg |-> IF line.isTextA THEN colorOf(line.content[j])
                ELSE queryCellBg(line, j - 1, first)]]

\* flow variant: secondSequence.split('').map((symbol, index) => ...)
flowQueryCells(first, second) ==
    [j \in 1..Len(second) |->
        LET symbol == second[j]
            shouldBeColored == j > Len(first) \/ symbol # first[j]
        IN [char |-> symbol,
            bg |-> IF shouldBeColored THEN colorOf(symbol) ELSE "transparent"]]

----------------------------------------------------------------------------
(* Form actions *)

\* Input onChange after a keystroke at the end of the (controlled) field
TypeChar(name, c, maxKeys) ==
    /\ mounted
    /\ Len(typed[name]) < maxKeys
    /\ formValues' = [formValues EXCEPT ![name] = filterInput(formValues[name] \o <<c>>)]
    /\ typed' = [typed EXCEPT ![name] = Append(typed[name], c)]
    /\ UNCHANGED <<lengthError, lastAttempt, layoutVars, variant, selVars>>

\* clearButton onClick: setValue(sequenseName, ''); the button exists while the field is non-empty
ClearField(name) ==
    /\ mounted
    /\ formValues[name] # <<>>
    /\ formValues' = [formValues EXCEPT ![name] = <<>>]
    /\ typed' = [typed EXCEPT ![name] = <<>>]
    /\ UNCHANGED <<lengthError, lastAttempt, layoutVars, variant, selVars>>

\* a field value written without the onChange filter (setValue with any string)
SetValue(name, raw) ==
    /\ mounted
    /\ formValues' = [formValues EXCEPT ![name] = raw]
    /\ typed' = [typed EXCEPT ![name] = <<>>]
    /\ UNCHANGED <<lengthError, lastAttempt, layoutVars, variant, selVars>>

\* mutant: the return after setError is missing
onSubmit_noReturn(data) ==
    /\ lengthError' = (Len(data.firstSubsequense) # Len(data.secondSubsequense))
    /\ lastAttempt' = IF Len(data.firstSubsequense) # Len(data.secondSubsequense)
                      THEN "mismatch" ELSE "stored"
    /\ firstSequence' = data.firstSubsequense
    /\ secondSequence' = data.secondSubsequense
    /\ renderedLines' = Render(firstSequence', secondSequence', charsPerLine)

\* mutant: the reference is stored before the lengths are compared
onSubmit_firstEarly(data) ==
    /\ lengthError' = (Len(data.firstSubsequense) # Len(data.secondSubsequense))
    /\ lastAttempt' = IF Len(data.firstSubsequense) # Len(data.secondSubsequense)
                      THEN "mismatch" ELSE "stored"
    /\ firstSequence' = data.firstSubsequense
    /\ secondSequence' = IF Len(data.firstSubsequense) # Len(data.secondSubsequense)
                         THEN secondSequence ELSE data.secondSubsequense
    /\ renderedLines' = Render(firstSequence', secondSequence', charsPerLine)

\* the callback given to handleSubmit
onSubmit(data) ==
    IF Len(data.firstSubsequense) # Len(data.secondSubsequense)
    THEN /\ lengthError' = TRUE
         /\ lastAttempt' = "mismatch"
         /\ UNCHANGED <<firstSequence, secondSequence, renderedLines>>
    ELSE /\ lengthError' = FALSE
         /\ lastAttempt' = "stored"
         /\ firstSequence' = data.firstSubsequense
         /\ secondSequence' = data.secondSubsequense
         /\ renderedLines' = Render(firstSequence', secondSequence', charsPerLine)

\* A click on the Submit button.  The inputs are `required`: with an empty
\* field the browser blocks the submit event and the handler does not run.
\* Otherwise handleSubmit validates each field with validateAminoAcidInput,
\* drops the root errors, and calls the callback only if every field is valid.
Submit ==
    /\ mounted
    /\ IF formValues.firstSubsequense = <<>> \/ formValues.secondSubsequense = <<>>
       THEN /\ lastAttempt' = "blocked"
            /\ UNCHANGED <<lengthError, firstSequence, secondSequence, renderedLines>>
       ELSE IF ~ (validateAminoAcidInput(formValues.firstSubsequense)
                  /\ validateAminoAcidInput(formValues.secondSubsequense))
       THEN /\ lastAttempt' = "invalid"
            /\ lengthError' = FALSE
            /\ UNCHANGED <<firstSequence, secondSequence, renderedLines>>
       ELSE onSubmit(formValues)
    /\ UNCHANGED <<formValues, typed, charsPerLine, variant, selVars>>

\* mutant: a resize also drops the length error
updateCharsPerLine_clears(containerWidth) ==
    /\ mounted
    /\ charsPerLine' = containerWidth \div 16
    /\ renderedLines' = Render(firstSequence, secondSequence, charsPerLine')
    /\ lengthError' = FALSE
    /\ UNCHANGED <<formValues, typed, lastAttempt, firstSequence, secondSequence,
                   variant, selVars>>

\* mutant: the display lines are not recomputed for the new width
updateCharsPerLine_stale(containerWidth) ==
    /\ mounted
    /\ charsPerLine' = containerWidth \div 16
    /\ UNCHANGED <<formVars, firstSequence, secondSequence, renderedLines, variant,
                   selVars>>

\* updateCharsPerLine, run at mount and on every window resize
updateCharsPerLine(containerWidth) ==
    /\ mounted
    /\ charsPerLine' = containerWidth \div 16
    /\ renderedLines' = Render(firstSequence, secondSequence, charsPerLine')
    /\ UNCHANGED <<formVars, firstSequence, secondSequence, variant, selVars>>

----------------------------------------------------------------------------
(* Selection-capture bridge *)

NoTimer == -1

\* debounce(800, handleTextSelection)
DebounceMs == 800

\* time advances in steps of DebounceMs / TicksPerWindow ms
TicksPerWindow == 8
TickMs == DebounceMs \div TicksPerWindow

\* what window.getSelection() can hold: nothing, text inside the container,
\* text that starts inside and ends outside, text outside
Selections ==
    {[text |-> "", anchorIn |-> FALSE, focusIn |-> FALSE],
     [text |-> "AR", anchorIn |-> TRUE, focusIn |-> TRUE],
     [text |-> "ND", anchorIn |-> TRUE, focusIn |-> TRUE],
     [text |-> "ND Submit", anchorIn |-> TRUE, focusIn |-> FALSE],
     [text |-> "Subsequences", anchorIn |-> FALSE, focusIn |-> FALSE]}

\* mutant: a pending timer is left running instead of being restarted
debounced_keep(pending) == IF pending # NoTimer THEN pending ELSE DebounceMs

\* the debounced wrapper: clear the pending timeout, setTimeout(exec, 800);
\* the value is the time left on the timer after the call
debounced(pending) == DebounceMs

\* mutant: the pending timeout is not cleared
clearExistingTimeout_none(pending, id) == pending

\* clearExistingTimeout: clearTimeout(timeoutID) on the browser's pending timeouts
clearExistingTimeout(pending, id) == pending \ {id}

\* the registered listener is called with an event.  A timer that is due
\* runs before an event of the same instant.
ListenerCall ==
    /\ listeners > 0
    /\ 0 \notin timers
    /\ events < MaxEvents
    /\ events' = events + 1
    /\ timeoutID' = debounced(timeoutID)
    /\ timers' = clearExistingTimeout(timers, timeoutID) \cup {timeoutID'}
    /\ bursts' = IF timeoutID = NoTimer THEN bursts + 1 ELSE bursts
    /\ sinceEvent' = 0

\* handleTextSelection reaches navigator.clipboard.writeText for selection sel
copies(sel) ==
    IF variant = "layout"
    THEN sel.text # "" /\ mounted /\ sel.anchorIn /\ sel.focusIn
    ELSE sel.text # ""

\* the document selection changes; the flow variant listens to
\* selectionchange on the document, the layout variant does not
ChangeSelection(sel) ==
    /\ sel # selection
    /\ selection' = sel
    /\ IF variant = "flow" /\ listeners > 0
       THEN ListenerCall
       ELSE UNCHANGED <<timeoutID, timers, bursts, sinceEvent, events>>
    /\ UNCHANGED <<formVars, layoutVars, variant, mounted, listeners, clipboard,
                   pendingWrites, toasts, consoleErrors, unhandled, handlerRuns>>

\* a mouseup inside the container, which the layout variant listens to
MouseUp ==
    /\ variant = "layout"
    /\ mounted
    /\ ListenerCall
    /\ UNCHANGED <<formVars, layoutVars, variant, mounted, listeners, selection,
                   clipboard, pendingWrites, toasts, consoleErrors, unhandled,
                   handlerRuns>>

\* time passes while the debounce timer runs
Tick ==
    /\ timers # {}
    /\ 0 \notin timers
    /\ LET next == CHOOSE t \in timers : \A u \in timers : t <= u
           dt == Min(TickMs, next)
       IN /\ timers' = {t - dt : t \in timers}
          /\ timeoutID' = IF timeoutID = NoTimer THEN NoTimer ELSE timeoutID - dt
          /\ sinceEvent' = sinceEvent + dt
    /\ UNCHANGED <<formVars, layoutVars, variant, mounted, listeners, selection,
                   clipboard, pendingWrites, toasts, consoleErrors, unhandled,
                   handlerRuns, events, bursts>>

\* the debounce timer expires: exec runs handleTextSelection
TimerFire ==
    /\ 0 \in timers
    /\ timers' = timers \ {0}
    /\ timeoutID' = IF timeoutID = 0 THEN NoTimer ELSE timeoutID
    /\ handlerRuns' = handlerRuns + 1
    /\ IF copies(selection)
       THEN /\ clipboard' = Append(clipboard, selection.text)
            /\ pendingWrites' = pendingWrites + 1
       ELSE UNCHANGED <<clipboard, pendingWrites>>
    /\ UNCHANGED <<formVars, layoutVars, variant, mounted, listeners, selection,
                   toasts, consoleErrors, unhandled, sinceEvent, events, bursts>>

\* a writeText promise settles: .then(toaster.success), and .catch(console.error)
\* in the layout variant only
WriteSettles(fulfilled) ==
    /\ pendingWrites > 0
    /\ pendingWrites' = pendingWrites - 1
    /\ toasts' = IF fulfilled THEN toasts + 1 ELSE toasts
    /\ consoleErrors' = IF ~fulfilled /\ variant = "layout"
                        THEN consoleErrors + 1 ELSE consoleErrors
    /\ unhandled' = IF ~fulfilled /\ variant = "flow" THEN unhandled + 1 ELSE unhandled
    /\ UNCHANGED <<formVars, layoutVars, variant, mounted, listeners, timeoutID,
                   timers, selection, clipboard, sinceEvent, handlerRuns, events,
                   bursts>>

\* the component unmounts: the effect cleanups run.  The layout variant
\* removes its listener; the flow variant's effect returns the value of a
\* second addEventListener call (undefined), so it has no cleanup.  Neither
\* cancels the debounce timer.
Unmount ==
    /\ mounted
    /\ mounted' = FALSE
    /\ listeners' = IF variant = "layout" THEN 0 ELSE listeners
    /\ UNCHANGED <<formVars, layoutVars, variant, timeoutID, timers, selection, clipboard,
                   pendingWrites, toasts, consoleErrors, unhandled, sinceEvent,
                   handlerRuns, events, bursts>>

----------------------------------------------------------------------------
(* Specifications *)

InitSelection == [text |-> "", anchorIn |-> FALSE, focusIn |-> FALSE]

InitRest ==
    /\ lengthError = FALSE
    /\ lastAttempt = "none"
    /\ firstSequence = <<>>
    /\ secondSequence = <<>>
    /\ charsPerLine = 0
    /\ renderedLines = <<>>
    /\ mounted = TRUE
    /\ listeners = 1
    /\ timeoutID = NoTimer
    /\ timers = {}
    /\ selection = InitSelection
    /\ clipboard = <<>>
    /\ pendingWrites = 0
    /\ toasts = 0
    /\ consoleErrors = 0
    /\ unhandled = 0
    /\ sinceEvent = 0
    /\ handlerRuns = 0
    /\ events = 0
    /\ bursts = 0

\* the mounted component with empty fields
Init ==
    /\ formValues = [n \in FieldNames |-> <<>>]
    /\ typed = [n \in FieldNames |-> <<>>]
    /\ variant = "layout"
    /\ InitRest

\* the user's flow: typing, clearing, submitting, resizing
Next ==
    \/ \E name \in FieldNames, c \in FlowChars : TypeChar(name, c, MaxTyped)
    \/ \E name \in FieldNames : ClearField(name)
    \/ Submit
    \/ \E w \in ContainerWidths : updateCharsPerLine(w)

Spec == Init /\ [][Next]_vars

\* typing alone: keystrokes and the clear buttons
NextInput ==
    \/ \E name \in FieldNames, c \in InputChars : TypeChar(name, c, MaxKeys)
    \/ \E name \in FieldNames : ClearField(name)

SpecInput == Init /\ [][NextInput]_vars

\* the layout as a function of the field values: any two filtered field values
InitLayout ==
    /\ formValues \in [FieldNames -> SeqsUpTo(LayoutSymbols, MaxSeqLen)]
    /\ typed = formValues
    /\ variant = "layout"
    /\ InitRest

NextLayout ==
    \/ Submit
    \/ \E w \in ContainerWidths : updateCharsPerLine(w)

SpecLayout == InitLayout /\ [][NextLayout]_vars

\* the submission gate under field values that bypass the live filter
NextProg ==
    \/ \E name \in FieldNames, raw \in ProgValues : SetValue(name, raw)
    \/ \E name \in FieldNames : ClearField(name)
    \/ Submit
    \/ \E w \in ContainerWidths : updateCharsPerLine(w)

SpecProg == Init /\ [][NextProg]_vars

\* the selection bridge of either variant
InitSel ==
    /\ formValues = [n \in FieldNames |-> <<>>]
    /\ typed = [n \in FieldNames |-> <<>>]
    /\ variant \in {"layout", "flow"}
    /\ InitRest

NextSel ==
    \/ \E sel \in Selections : ChangeSelection(sel)
    \/ MouseUp
    \/ Tick
    \/ TimerFire
    \/ \E fulfilled \in BOOLEAN : WriteSettles(fulfilled)
    \/ Unmount

SpecSel == InitSel /\ [][NextSel]_vars

\* the events of the layout variant together: those of the form, the resize
\* and the selection events, with one key to type
FrameChars == {"a"}

NextFrame ==
    \/ \E name \in FieldNames, c \in FrameChars : TypeChar(name, c, MaxTyped)
    \/ \E name \in FieldNames : ClearField(name)
    \/ Submit
    \/ \E w \in ContainerWidths : updateCharsPerLine(w)
    \/ \E sel \in Selections : ChangeSelection(sel)
    \/ MouseUp

SpecFrame == Init /\ [][NextFrame]_vars

\* the colouring over the whole alphabet: the reference field holds any
\* symbol followed by a gap or an A, the query field one of three values
\* that match the reference at some indices and differ at others
RefValues ==
    {<<ALLOWED_SYMBOLS[i], t>> : i \in 1..Len(ALLOWED_SYMBOLS), t \in {"-", "A"}}

QueryValues == {<<"A", "A">>, <<"A", "-">>, <<"-", "D">>}

InitColour ==
    /\ formValues \in {[firstSubsequense |-> r, secondSubsequense |-> q] :
                          r \in RefValues, q \in QueryValues}
    /\ typed = formValues
    /\ variant = "layout"
    /\ InitRest

SpecColour == InitColour /\ [][NextLayout]_vars

----------------------------------------------------------------------------
(* Helpers of the properties *)

AlphabetSet == {ALLOWED_SYMBOLS[i] : i \in 1..Len(ALLOWED_SYMBOLS)}

CeilDiv(a, b) == (a + b - 1) \div b

\* the symbols of seq at global indices [k*W, (k+1)*W)
Chunk(seq, k, W) == [j \in 1..Max(0, Min(W, Len(seq) - k * W)) |-> seq[k * W + j]]

RECURSIVE TrackText(_, _)
\* the contents of the lines of one track, concatenated in emission order
TrackText(lines, isA) ==
    IF lines = <<>> THEN <<>>
    ELSE (IF Head(lines).isTextA = isA THEN Head(lines).content ELSE <<>>)
         \o TrackText(Tail(lines), isA)

RECURSIVE QueryCells(_, _)
\* the rendered cells of the query-track lines, in emission order
QueryCells(lines, first) ==
    IF lines = <<>> THEN <<>>
    ELSE (IF Head(lines).isTextA THEN <<>> ELSE lineCells(Head(lines), first))
         \o QueryCells(Tail(lines), first)

\* the buffer the live filter should hold after the keystrokes raw
ExpectedBuffer(raw) ==
    SelectSeq([i \in 1..Len(raw) |-> upperChar(raw[i])], LAMBDA c : c \in AlphabetSet)

----------------------------------------------------------------------------
(* Layout properties, checked under SpecLayout *)

\* C1: layout round-trip: for charsPerLine >= 1 the contents of the
\* reference-track lines, concatenated in emission order, are the reference
\* sequence, and those of the query-track lines are the query sequence.
C1_RoundTrip ==
    charsPerLine >= 1 =>
        /\ TrackText(renderedLines, TRUE) = firstSequence
        /\ TrackText(renderedLines, FALSE) = secondSequence

C1_Witness ==
    /\ charsPerLine >= 2
    /\ Len(firstSequence) > charsPerLine
    /\ Len(firstSequence) % charsPerLine # 0
    /\ firstSequence # secondSequence
    /\ TrackText(renderedLines, FALSE) = secondSequence

\* C2: line-count law: non-empty equal-length sequences of length L and
\* charsPerLine = W >= 1 give exactly 2 * ceil(L / W) display lines.
C2_LineCount ==
    (charsPerLine >= 1 /\ Len(firstSequence) > 0
        /\ Len(firstSequence) = Len(secondSequence)) =>
        Len(renderedLines) = 2 * CeilDiv(Len(firstSequence), charsPerLine)

C2_Witness ==
    /\ charsPerLine = 2
    /\ Len(firstSequence) = 3
    /\ Len(secondSequence) = 3
    /\ Len(renderedLines) = 4

\* C3: ordering and shared chunk boundaries: for W >= 1, line 2k is the
\* reference chunk k and line 2k+1 the query chunk k, both start at k*W and
\* hold the symbols at global indices [k*W, (k+1)*W) of their own sequence.
C3_AlternatingPairs ==
    charsPerLine >= 1 =>
        /\ Len(renderedLines) = 2 * CeilDiv(Len(firstSequence), charsPerLine)
        /\ \A k \in 0..(CeilDiv(Len(firstSequence), charsPerLine) - 1) :
              /\ renderedLines[2 * k + 1] =
                    [content |-> Chunk(firstSequence, k, charsPerLine),
                     isTextA |-> TRUE, startGlobalIndex |-> k * charsPerLine]
              /\ renderedLines[2 * k + 2] =
                    [content |-> Chunk(secondSequence, k, charsPerLine),
                     isTextA |-> FALSE, startGlobalIndex |-> k * charsPerLine]

C3_Witness ==
    /\ charsPerLine = 3
    /\ Len(firstSequence) = 5
    /\ firstSequence # secondSequence
    /\ Len(renderedLines) = 4
    /\ renderedLines[3].isTextA
    /\ renderedLines[3].startGlobalIndex = 3
    /\ renderedLines[3].content = <<firstSequence[4], firstSequence[5]>>
    /\ renderedLines[4].content = <<secondSequence[4], secondSequence[5]>>

\* C4: match classification and query colouring: the query cell at global
\* index i is filled with its symbol's colour exactly when Q[i] # R[i] and is
\* transparent when Q[i] = R[i], whatever line and offset it falls on; the
\* flow variant colours its query cells the same way.
C4_QueryColouring ==
    /\ charsPerLine >= 1 =>
          LET cells == QueryCells(renderedLines, firstSequence)
          IN /\ Len(cells) = Len(secondSequence)
             /\ \A i \in 1..Len(secondSequence) :
                   /\ cells[i].char = secondSequence[i]
                   /\ cells[i].bg = IF secondSequence[i] # firstSequence[i]
                                    THEN COLOR_MAP[secondSequence[i]]
                                    ELSE "transparent"
    /\ LET cells == flowQueryCells(firstSequence, secondSequence)
       IN \A i \in 1..Len(secondSequence) :
             /\ cells[i].char = secondSequence[i]
             /\ cells[i].bg = IF secondSequence[i] # firstSequence[i]
                              THEN COLOR_MAP[secondSequence[i]]
                              ELSE "transparent"

C4_Witness ==
    /\ charsPerLine = 2
    /\ Len(secondSequence) = 4
    /\ secondSequence[3] # firstSequence[3]
    /\ secondSequence[4] = firstSequence[4]
    /\ secondSequence[1] = firstSequence[3]
    /\ QueryCells(renderedLines, firstSequence)[3].bg # "transparent"
    /\ QueryCells(renderedLines, firstSequence)[4].bg = "transparent"

\* C5: a non-positive charsPerLine yields zero display lines for any stored
\* sequences, and the lines are there again once charsPerLine is >= 1.
C5_NoLinesWithoutWidth ==
    /\ charsPerLine <= 0 => renderedLines = <<>>
    /\ \A cpl \in -2..0 : Render(firstSequence, secondSequence, cpl) = <<>>
    /\ (charsPerLine >= 1 /\ firstSequence # <<>>) => renderedLines # <<>>

C5_Witness ==
    /\ charsPerLine = 0
    /\ Len(firstSequence) >= 2
    /\ renderedLines = <<>>
    /\ lastAttempt = "stored"

----------------------------------------------------------------------------
(* Form properties *)

RejectedSubmit == Submit /\ lastAttempt' \in {"invalid", "mismatch"}

\* C6: a submit attempt rejected for an invalid symbol or for a length
\* mismatch leaves the stored sequences and the display lines as they were.
C6_RejectedSubmitKeepsOutput ==
    [][RejectedSubmit => UNCHANGED <<firstSequence, secondSequence, renderedLines>>]_vars

C6_Witness ==
    /\ lastAttempt = "invalid"
    /\ firstSequence # <<>>
    /\ renderedLines # <<>>
    /\ formValues.firstSubsequense # firstSequence

\* C7: after any submit attempt the length-mismatch error is present
\* exactly when that attempt itself produced a length mismatch.
C7_ErrorOnlyFromLastAttempt ==
    lastAttempt # "none" => (lengthError <=> lastAttempt = "mismatch")

\* C8: live filtering: each field's buffer is the raw typed text uppercased
\* with the characters outside the alphabet removed, in order, so it never
\* holds a lowercase or non-alphabet character.
C8_LiveFilter ==
    \A name \in FieldNames :
        /\ formValues[name] = ExpectedBuffer(typed[name])
        /\ \A i \in 1..Len(formValues[name]) : formValues[name][i] \in AlphabetSet

C8_Witness ==
    /\ typed.firstSubsequense = <<"a", "1", "R">>
    /\ formValues.firstSubsequense = <<"A", "R">>
    /\ typed.secondSubsequense = <<"1", "-", "a">>
    /\ formValues.secondSubsequense = <<"-", "A">>

\* C9: every symbol of the sequences stored by a successful submission is a
\* member of the 21-symbol uppercase alphabet, also for field values that did
\* not pass through the live filter.
C9_StoredInAlphabet ==
    /\ \A i \in 1..Len(firstSequence) : firstSequence[i] \in AlphabetSet
    /\ \A i \in 1..Len(secondSequence) : secondSequence[i] \in AlphabetSet

----------------------------------------------------------------------------
(* Selection properties, checked under SpecSel *)

\* a selection both variants copy while the component is mounted
Qualifying(sel) == sel.text # "" /\ sel.anchorIn /\ sel.focusIn

\* C10: debounce last-wins: the handler runs once per burst of events less
\* than 800 ms apart, exactly 800 ms after the last event of the burst, and
\* a qualifying selection current at that time is what it writes.
C10_DebounceLastWins ==
    /\ [](handlerRuns + (IF timeoutID # NoTimer THEN 1 ELSE 0) = bursts)
    /\ [][handlerRuns' # handlerRuns =>
            /\ handlerRuns' = handlerRuns + 1
            /\ sinceEvent = DebounceMs
            /\ (mounted /\ Qualifying(selection)) =>
                   clipboard' = Append(clipboard, selection.text)
            /\ Len(clipboard') <= Len(clipboard) + 1]_vars

C10_Witness ==
    /\ events = 2
    /\ bursts = 1
    /\ handlerRuns = 1
    /\ clipboard = <<"ND">>
    /\ selection.text = "ND"
    /\ sinceEvent = DebounceMs

----------------------------------------------------------------------------
\* C11 (container-scoped copy): when the debounced handler runs, the text is
\* written to the clipboard exactly when the selection is non-empty and its
\* anchor and focus nodes both lie inside the rendered container; otherwise
\* the run starts no write, so nothing can be notified for it.
C11_ContainerScopedCopy ==
    [][handlerRuns' # handlerRuns =>
          IF selection.text # "" /\ mounted /\ selection.anchorIn /\ selection.focusIn
          THEN /\ clipboard' = Append(clipboard, selection.text)
               /\ pendingWrites' = pendingWrites + 1
          ELSE /\ clipboard' = clipboard
               /\ pendingWrites' = pendingWrites]_vars

----------------------------------------------------------------------------
\* C12 (listener teardown): once the component is unmounted the selection
\* listener registered at mount is detached (no listener stays registered),
\* so that no later event can reach the handler.
C12_ListenerTeardown == ~mounted => listeners = 0

----------------------------------------------------------------------------
\* C13 (debounce cancellation on teardown): an unmount cancels the pending
\* debounce timer, so no timer is pending once the component is unmounted
\* and the selection handler is never invoked after the unmount.
C13_TimerCancelledOnUnmount ==
    [][/\ (mounted /\ ~mounted') => timers' = {}
       /\ handlerRuns' # handlerRuns => mounted]_vars

----------------------------------------------------------------------------
\* C14 (no stale action): in every interleaving of selection events, timer
\* expiry and unmount, no clipboard write is issued and no success
\* notification is shown once the component is unmounted.  The selections
\* considered are those of text outside the destroyed region, which the
\* unmount leaves in the document.
C14_NoStaleAction ==
    [][(~mounted /\ ~selection.anchorIn /\ ~selection.focusIn) =>
           /\ clipboard' = clipboard
           /\ toasts' = toasts]_vars

----------------------------------------------------------------------------
\* C15 (clipboard-write failure is non-fatal): a rejected clipboard write is
\* caught and logged, so no rejection is left unhandled, and it shows no
\* success notification.
C15_RejectionCaught ==
    /\ unhandled = 0
    /\ toasts + consoleErrors + pendingWrites = Len(clipboard)

----------------------------------------------------------------------------
\* C16 (sequences are replaced only as a pair): whatever the user types,
\* clears, submits or resizes, the stored reference and query have the same
\* length, and a step that changes either of them stores both fields of the
\* one submission being handled.
C16_PairReplacedTogether ==
    /\ [](Len(firstSequence) = Len(secondSequence))
    /\ [][(firstSequence' # firstSequence \/ secondSequence' # secondSequence) =>
             /\ firstSequence' = formValues.firstSubsequense
             /\ secondSequence' = formValues.secondSubsequense]_vars

\* a stored pair survives a later submission of fields of unequal lengths
C16_Witness ==
    /\ firstSequence = <<"A", "R">>
    /\ secondSequence = <<"R", "A">>
    /\ formValues.firstSubsequense = <<"R">>
    /\ formValues.secondSubsequense = <<"R", "A">>
    /\ lastAttempt = "mismatch"

----------------------------------------------------------------------------
\* the layout computed from scratch from the stored sequences and the width
FreshLayout ==
    IF charsPerLine <= 0 THEN <<>>
    ELSE [n \in 1..2 * CeilDiv(Max(Len(firstSequence), Len(secondSequence)),
                               charsPerLine) |->
            LET k == (n - 1) \div 2
            IN [content |-> Chunk(IF n % 2 = 1 THEN firstSequence ELSE secondSequence,
                                  k, charsPerLine),
                isTextA |-> n % 2 = 1,
                startGlobalIndex |-> k * charsPerLine]]

\* C17 (recompute consistency): in every state reached by submissions and
\* resizes in any order, the display lines are the layout computed from
\* scratch from the stored sequences and the current charsPerLine.
C17_RecomputeConsistency == renderedLines = FreshLayout

\* a stored pair laid out on two chunks after a submission and a resize
C17_Witness ==
    /\ firstSequence = <<"A", "D", "A">>
    /\ secondSequence = <<"D", "D", "A">>
    /\ charsPerLine = 2
    /\ Len(renderedLines) = 4
    /\ renderedLines[4].content = <<"A">>
    /\ renderedLines[4].startGlobalIndex = 2

----------------------------------------------------------------------------
\* C18 (frame of a resize): a step that changes charsPerLine is a resize: it
\* sets charsPerLine to floor(containerWidth / 16) and leaves the stored
\* sequences, the form buffers and the length error (and the selection
\* bridge) unchanged.  Hence a submission, an input change, a clear click or
\* a selection event, each of which changes one of those, never changes
\* charsPerLine.
C18_ResizeFrame ==
    [][charsPerLine' # charsPerLine =>
          /\ \E w \in ContainerWidths :
                 /\ 16 * charsPerLine' <= w
                 /\ w < 16 * charsPerLine' + 16
          /\ UNCHANGED <<formValues, typed, lengthError, lastAttempt,
                         firstSequence, secondSequence, selVars>>]_vars

\* a resize has set the width while a stored pair, a length error from
\* later field values and a pending selection event are present
C18_Witness ==
    /\ charsPerLine = 2
    /\ lengthError
    /\ firstSequence = <<"A">>
    /\ formValues.secondSubsequense = <<"A", "A">>
    /\ events > 0
    /\ selection.text = "AR"

----------------------------------------------------------------------------
\* C19 (chunk shape): for stored sequences of one length L and a width
\* W >= 1, every emitted line has between 1 and W symbols, every line but
\* the two of the last chunk has exactly W, the two lines of the last chunk
\* have L - W * (ceil(L / W) - 1) symbols, and the reference and query line
\* of one chunk have the same length.
C19_ChunkShape ==
    LET L == Len(firstSequence)
        W == charsPerLine
        total == Len(renderedLines)
    IN (Len(secondSequence) = L /\ W >= 1) =>
          /\ \A n \in 1..total :
                /\ Len(renderedLines[n].content) >= 1
                /\ Len(renderedLines[n].content) <= W
                /\ n <= total - 2 => Len(renderedLines[n].content) = W
                /\ n > total - 2 =>
                      Len(renderedLines[n].content) = L - W * (CeilDiv(L, W) - 1)
          /\ total % 2 = 0
          /\ \A k \in 1..(total \div 2) :
                Len(renderedLines[2 * k - 1].content) = Len(renderedLines[2 * k].content)

\* five symbols on width 2: two full chunks and a last chunk of one symbol
C19_Witness ==
    /\ Len(firstSequence) = 5
    /\ Len(secondSequence) = 5
    /\ charsPerLine = 2
    /\ Len(renderedLines) = 6
    /\ Len(renderedLines[4].content) = 2
    /\ Len(renderedLines[5].content) = 1
    /\ Len(renderedLines[6].content) = 1

----------------------------------------------------------------------------
\* C20 (single pending timer): in every reachable state at most one
\* selection-debounce timeout is pending; an event that arrives while one is
\* pending replaces it by a fresh 800 ms timeout instead of adding a second
\* one; so the handler has been invoked at most once per burst of events.
C20_SinglePendingTimer ==
    /\ [](Cardinality(timers) <= 1)
    /\ [](handlerRuns <= bursts)
    /\ [][events' # events => timers' = {DebounceMs}]_vars

\* a second event has arrived part-way through the window of the first
\* burst and then another part of the restarted window has passed
C20_Witness ==
    /\ events = 2
    /\ bursts = 1
    /\ handlerRuns = 0
    /\ timers = {DebounceMs - 3 * TickMs}
    /\ sinceEvent = 3 * TickMs

----------------------------------------------------------------------------
\* C21 (classifier totality and reference colouring): the colour map has a
\* colour for each of the 21 symbols of the alphabet and for no other
\* symbol, the gap maps to transparent, and every reference-track cell shows
\* its own symbol with that symbol's mapped colour, whether or not the query
\* holds the same symbol at that index.
C21_ReferenceColouring ==
    /\ Cardinality(AlphabetSet) = 21
    /\ DOMAIN COLOR_MAP = AlphabetSet
    /\ COLOR_MAP["-"] = "transparent"
    /\ \A s \in AlphabetSet \ {"-"} : COLOR_MAP[s] \notin {"transparent", "undefined"}
    /\ \A n \in DOMAIN renderedLines :
          renderedLines[n].isTextA =>
             LET line == renderedLines[n]
                 cells == lineCells(line, firstSequence)
             IN /\ Len(cells) = Len(line.content)
                /\ \A j \in 1..Len(cells) :
                      LET symbol == firstSequence[line.startGlobalIndex + j]
                      IN /\ symbol \in AlphabetSet
                         /\ cells[j].char = symbol
                         /\ cells[j].bg = COLOR_MAP[symbol]

\* a reference A over a query A is filled with A's colour, and the reference
\* gap on the next chunk has no fill
C21_Witness ==
    /\ firstSequence = <<"A", "-">>
    /\ secondSequence = <<"A", "-">>
    /\ charsPerLine = 1
    /\ Len(renderedLines) = 4
    /\ lineCells(renderedLines[1], firstSequence)[1].bg = "#67E4A6"
    /\ lineCells(renderedLines[2], firstSequence)[1].bg = "transparent"
    /\ lineCells(renderedLines[3], firstSequence)[1].bg = "transparent"

============================================================================
